---- MODULE Spec2Model ----
(***************************************************************************)
(* Slide keyframe detection of backend/video_keyframes.py:                 *)
(* SlideKeyframeDetector (process_frame, flush, _lock_slide) and the part  *)
(* of VideoChunkProcessor that hands every returned candidate to           *)
(* _persist_and_emit; VideoAccumulator.add_chunk and the frame cursor of   *)
(* VideoChunkProcessor.process_chunk; KeyframeBroadcaster; and the receive *)
(* loop of a video connection with its teardown.  Each part has its own    *)
(* specification over the same variables; the variables of the other parts *)
(* stay at their initial values.                                           *)
(*                                                                         *)
(* Abstractions.  Images are tokens: NoImage (Python None), "frame" (a     *)
(* preprocessed frame) and "ema" (a blend of frames).  The two SSIM scores *)
(* that process_frame computes from images are inputs of the step, scaled  *)
(* by 100 (0.90 is 90).  Timestamps are integers in milliseconds.  A       *)
(* candidate is an entry of cands; its index is its identity, so the       *)
(* references held by current_candidate, pending_emit and the returned     *)
(* lists all denote the same mutable object, as in the source.             *)
(*                                                                         *)
(* Inputs.  Frame timestamps are non-decreasing (the detector's input      *)
(* contract: "externally monotonic per lecture"); equal timestamps are     *)
(* allowed.  process_frame, flush and _persist_and_emit interleave freely, *)
(* except that the processor passes every candidate of a returned list to  *)
(* _persist_and_emit before it calls the detector again.  _frame_count,    *)
(* which process_frame uses for logging only, is left out.                 *)
(***************************************************************************)
EXTENDS Integers, Sequences, FiniteSets, TLC

\* ---------------------------------------------------------------- bounds
\* Timestamps are multiples of Tick from -Tick up to MaxTick * Tick.
Tick == 500
MaxTick == 6
\* Candidates one detector may create.
MaxCands == 2
\* Cap of the transition counter, which the source lets grow without limit
\* once a flush has left the detector in state "locked" with no candidate.
MaxTransitionFrames == 9
\* Fragments one connection delivers to process_chunk.
MaxChunksReceived == 6
\* Calls of KeyframeBroadcaster.broadcast, which may overlap.
MaxBroadcasts == 2
MaxLockBroadcasts == 1
MaxDecodedFrames == 3
\* The new frame of a process_chunk call on which process_frame may raise.
MaxRaiseAt == 2
MaxTasks == 2
MaxArrivals == 2

\* Python's None for Optional[int] fields and for candidate references.
None == -1
NoImage == "None"
\* Python's None for Optional[bytes]; bytes are sequences of 0..255.
NoBytes == <<None>>

\* Frame timestamps: epoch milliseconds computed from the client's capturedAt,
\* which may lie before, at or after the epoch.
Times == {k * Tick : k \in -1..MaxTick}

\* SSIM(baseline, processed) and SSIM(locked_reference, processed), x100.
SsimBaselineValues == {75, 80, 90}
SsimLockedValues == {70, 80}

\* The EBML header b'\x1a\x45\xdf\xa3' that opens an init segment.
Marker == <<26, 69, 223, 163>>
\* A byte that decodes to one frame; every other byte decodes to none.
FrameBytes == {1}
\* The fragments a client sends: an init segment without frames, an init
\* segment with one frame, three bytes of the marker (too short to be an init
\* segment, no frame), and media fragments of one and of two frames.
Chunks == {Marker, Marker \o <<1>>, <<26, 69, 223>>, <<1>>, <<1, 1>>}

Broadcasts == 1..MaxBroadcasts
\* The downstream connections that can subscribe.
Subscribers == {"s1", "s2", "s3"}

\* fps as _decode_frames reports it for every reconstruction of the stream.
Fps == 30
\* capturedAt of the fragments, in epoch milliseconds from the first one.
CaptureTimes == {0, 30, 1000}

\* max_chunks as VideoChunkProcessor constructs its accumulator.
ProcessorMaxChunks == 3
\* The windows the accumulator is checked with.
MaxChunksChoices == {2, ProcessorMaxChunks}

\* SlideDetectionParams as main.py builds it from the environment: the
\* defaults of the dataclass, and two other configurations.
DefaultParams ==
    [tau_stable |-> 90, tau_change |-> 75, min_stable_duration_ms |-> 1000,
     transition_confirm_frames |-> 8, cooldown_ms |-> 1500,
     slide_change_ssim |-> 70, min_slide_duration_ms |-> 1500]

ParamChoices ==
    {DefaultParams,
     [DefaultParams EXCEPT !.transition_confirm_frames = 2,
                           !.cooldown_ms = 3000,
                           !.min_slide_duration_ms = 500],
     [DefaultParams EXCEPT !.transition_confirm_frames = 3,
                           !.min_stable_duration_ms = 500,
                           !.cooldown_ms = 500,
                           !.min_slide_duration_ms = 1000]}

\* The attributes a SlideCandidate can hold: the dataclass is declared with
\* slots=True, so assigning any other attribute raises AttributeError.
SlideCandidateSlots ==
    {"lecture_id", "start_ms", "lock_ssim", "image_bytes", "metadata",
     "captured_at", "end_ms", "storage_url", "transcript_text", "id"}

VARIABLES
    params,              \* SlideKeyframeDetector.params
    baseline,            \* _baseline
    state,               \* _state
    stable_since_ms,     \* _stable_since_ms
    last_lock_ms,        \* _last_lock_ms
    transition_frames,   \* _transition_frames
    current_candidate,   \* _current_candidate (index into cands, or None)
    locked_reference,    \* _locked_reference
    pending_emit,        \* _pending_emit (indices into cands)
    last_timestamp_ms,   \* _last_timestamp_ms
    cands,               \* every SlideCandidate object created so far
    completed,           \* list returned by the last detector call, not yet
                         \* passed to _persist_and_emit by the processor
    broadcast_log,       \* candidates passed to broadcaster.broadcast, in order
    ws_log,              \* candidates passed to websocket.send_json, in order
    \* ---- history of the run, read only by the properties
    last_call,           \* the last detector call: process_frame or flush
    last_ssim,           \* ssim_baseline of the last frame (None: not computed)
    last_locked_sim,     \* locked_similarity of the last frame (None: not computed)
    prev,                \* detector fields as they were before the last call
    lock_frames,         \* lock_frames[i]: timestamp of the frame whose
                         \* processing created candidate i
    ever_flagged,        \* some frame processed while locked had change flagged
    flagged_run,         \* consecutive frames with change flagged processed while
                         \* locked, counted up to transition_confirm_frames
    eligible_run,        \* the same, counting only frames whose timestamp was
                         \* at least min_slide_duration_ms after last_lock_ms
    run_start_ms,        \* timestamp of the first frame of the current run of
                         \* frames with similarity >= tau_stable seen while searching
    confirmed_since_lock,\* candidates confirmed since the previous lock
    returned,            \* whole list returned by the last detector call
    flushed,             \* flush() has been called
    handled,             \* candidates _persist_and_emit has finished with
    store_calls,         \* candidates for which store_image was called
    store_failed         \* candidates for which store_image raised

VARIABLES
    max_chunks,            \* VideoAccumulator.max_chunks
    init_segment,          \* VideoAccumulator.init_segment
    media_chunks,          \* VideoAccumulator.media_chunks
    has_init,              \* VideoAccumulator.has_init
    total_chunks_received, \* VideoAccumulator.total_chunks_received
    last_frame_count,      \* VideoChunkProcessor.last_frame_count
    \* ---- history of the run, read only by the properties
    add_result,            \* what the last add_chunk returned
    last_chunk,            \* the fragment passed to the last add_chunk
    prev_media,            \* media_chunks before the last add_chunk
    since_init,            \* media fragments received since the init segment held
    init_arrival,          \* arrival number of the init segment held
    media_arrivals,        \* arrival numbers of the buffered media fragments
    arrived,               \* frames of the fragments add_chunk accepted
    fed,                   \* frames passed to detector.process_frame, in order
    decoded,               \* frames of the last reconstruction that had any
    prev_cursor,           \* last_frame_count before the last process_chunk
    ever_init,             \* a fragment starting with the init marker was received
    restarted,             \* an init segment replaced an earlier one
    dropped,               \* the window has dropped a media fragment
    last_captured_ms,      \* capturedAt of the last fragment, in epoch ms
    last_fed_ms,           \* timestamp_ms of the last process_frame call
                           \* process_chunk made
    passed_before_raise    \* frames process_frame had returned for in a
                           \* process_chunk call before that call raised

VARIABLES
    connections,         \* KeyframeBroadcaster._connections
    bc_lock,             \* KeyframeBroadcaster._lock: the broadcast call that
                         \* holds it, None when it is free
    registered,          \* the subscriber connections whose handler
                         \* keyframe_stream has called register
    bc_state,            \* per broadcast call: idle, sending, returned or raised
    bc_connections,      \* per broadcast call: its local list `connections`
    bc_pos,              \* per broadcast call: position of the loop in that list
    \* ---- history of the run, read only by the properties
    attempts,            \* per broadcast call: the subscribers it has called
                         \* send_json on, in order
    failed_since,        \* subscribers whose send failed and that have not
                         \* registered since
    excluded,            \* per broadcast call: failed_since when it started
    \* ---- one video connection
    pc,                  \* setup, receive (the loop), finalize (the finally
                         \* block) or done
    finalize_calls,      \* calls of processor.finalize
    teardown_path,       \* how the connection left the loop
    failed_at,           \* history: Len(cands) when process_chunk last raised
    released             \* candidates returned by the detector's calls, in order

VARIABLES
    \* ---- one call of _decode_frames
    dec_pc,              \* idle, transcode, read, cleanup, returned or raised
    dec_chunk,           \* the argument chunk_bytes
    tmp_files,           \* the temporary files that exist: "input", "output"
    transcode,           \* outcome of the ffmpeg run of this call
    dec_frames,          \* len(frames)
    dec_fps,             \* fps, in hundredths of a frame per second
    dec_exit,            \* how the try block was left: none (fell through),
                         \* return or raise
    dec_pending,         \* the pair of a `return` inside the try block
    dec_result           \* the pair the call returned

VARIABLES
    \* ---- the event loop and the video connections' handlers that run on it
    task_pc,             \* per handler: receive (suspended in `await
                         \* websocket.receive()`), decode, detect, persist
                         \* (inside these calls of process_chunk) or deliver
                         \* (suspended in a send of _persist_and_emit)
    running,             \* the handler that is executing, None when all are
                         \* suspended
    loop_arrived,        \* per handler: fragments that have reached its socket
    loop_taken           \* per handler: fragments its receive() has returned

detvars == <<baseline, state, stable_since_ms, last_lock_ms, transition_frames,
             current_candidate, locked_reference, pending_emit,
             last_timestamp_ms>>
histvars == <<last_call, last_ssim, last_locked_sim, prev, lock_frames,
              ever_flagged, flagged_run, eligible_run, run_start_ms,
              confirmed_since_lock,
              returned, flushed>>
emitvars == <<broadcast_log, ws_log, handled, store_calls, store_failed>>
accvars == <<max_chunks, init_segment, media_chunks, has_init,
             total_chunks_received>>
chunkhist == <<add_result, last_chunk, prev_media, since_init, init_arrival,
               media_arrivals, arrived, fed, decoded, prev_cursor, ever_init,
               restarted, dropped, last_captured_ms, last_fed_ms,
               passed_before_raise>>
chunkvars == <<accvars, last_frame_count, chunkhist>>
bcastvars == <<connections, bc_lock, registered, bc_state, bc_connections,
               bc_pos, attempts,
               failed_since, excluded>>
connvars == <<pc, finalize_calls, teardown_path, failed_at>>
decvars == <<dec_pc, dec_chunk, tmp_files, transcode, dec_frames, dec_fps,
             dec_exit, dec_pending, dec_result>>
loopvars == <<task_pc, running, loop_arrived, loop_taken>>
stepvars == <<decvars, loopvars>>
vars == <<params, detvars, cands, completed, histvars, emitvars, chunkvars,
          bcastvars, connvars, stepvars, released>>

\* ------------------------------------------------------------ helpers

\* Python's `a or b` on Optional[int]: None and 0 are both falsy.
PyOr(a, b) == IF a = None \/ a = 0 THEN b ELSE a

\* SlideCandidate(...) as _lock_slide constructs it.
NewCandidate(start, ssim_score) ==
    [start_ms |-> start, end_ms |-> None, lock_ssim |-> ssim_score,
     storage_url |-> None]

\* The detector fields the properties compare across one call.
Snapshot ==
    [state |-> state, transition_frames |-> transition_frames,
     stable_since_ms |-> stable_since_ms,
     current_candidate |-> current_candidate,
     confirmed_since_lock |-> confirmed_since_lock, last_call |-> last_call]

\* "Change flagged" as the design states it: similarity to the locked reference
\* <= slide_change_ssim and similarity to the baseline <= tau_change.
Flagged(locked_similarity, ssim_baseline) ==
    /\ locked_similarity <= params.slide_change_ssim
    /\ ssim_baseline <= params.tau_change

Min(a, b) == IF a <= b THEN a ELSE b

Range(seq) == {seq[i] : i \in DOMAIN seq}

\* The fragment has the four bytes of the init marker in front.
StartsWithMarker(bytes) ==
    \A i \in DOMAIN Marker : i \in DOMAIN bytes /\ bytes[i] = Marker[i]

\* SlideKeyframeDetector.__init__, and nothing emitted yet.
DetectorFresh ==
    /\ baseline = NoImage
    /\ state = "searching"
    /\ stable_since_ms = None
    /\ last_lock_ms = None
    /\ transition_frames = 0
    /\ current_candidate = None
    /\ locked_reference = NoImage
    /\ pending_emit = <<>>
    /\ last_timestamp_ms = None
    /\ cands = <<>>
    /\ completed = <<>>
    /\ broadcast_log = <<>>
    /\ ws_log = <<>>
    /\ last_call = "init"
    /\ last_ssim = None
    /\ last_locked_sim = None
    /\ lock_frames = <<>>
    /\ ever_flagged = FALSE
    /\ flagged_run = 0
    /\ eligible_run = 0
    /\ run_start_ms = None
    /\ confirmed_since_lock = <<>>
    /\ returned = <<>>
    /\ flushed = FALSE
    /\ handled = {}
    /\ store_calls = {}
    /\ store_failed = {}
    /\ prev = Snapshot

\* VideoAccumulator.__init__(max_chunks=n) and last_frame_count = 0.
ChunkFresh(n) ==
    /\ max_chunks = n
    /\ init_segment = NoBytes
    /\ media_chunks = <<>>
    /\ has_init = FALSE
    /\ total_chunks_received = 0
    /\ last_frame_count = 0
    /\ add_result = NoBytes
    /\ last_chunk = NoBytes
    /\ prev_media = <<>>
    /\ since_init = <<>>
    /\ init_arrival = None
    /\ media_arrivals = <<>>
    /\ arrived = {}
    /\ fed = <<>>
    /\ decoded = <<>>
    /\ prev_cursor = 0
    /\ ever_init = FALSE
    /\ restarted = FALSE
    /\ dropped = FALSE
    /\ last_captured_ms = None
    /\ last_fed_ms = None
    /\ passed_before_raise = {}

\* KeyframeBroadcaster.__init__, and no broadcast call made yet.
BroadcasterFresh ==
    /\ connections = {}
    /\ bc_lock = None
    /\ registered = {}
    /\ bc_state = [b \in Broadcasts |-> "idle"]
    /\ bc_connections = [b \in Broadcasts |-> <<>>]
    /\ bc_pos = [b \in Broadcasts |-> 0]
    /\ attempts = [b \in Broadcasts |-> <<>>]
    /\ failed_since = {}
    /\ excluded = [b \in Broadcasts |-> {}]

\* No call of _decode_frames made yet.
DecodeFresh ==
    /\ dec_pc = "idle"
    /\ dec_chunk = <<>>
    /\ dec_exit = "none"
    /\ tmp_files = {}
    /\ transcode = "none"
    /\ dec_frames = 0
    /\ dec_fps = 0
    /\ dec_pending = <<>>
    /\ dec_result = <<>>

\* The handlers of the video connections, each waiting for its first message.
LoopFresh ==
    /\ task_pc = [t \in 1..MaxTasks |-> "receive"]
    /\ running = None
    /\ loop_arrived = [t \in 1..MaxTasks |-> 0]
    /\ loop_taken = [t \in 1..MaxTasks |-> 0]

\* A video connection whose processor has just been constructed.
ConnFresh ==
    /\ pc = "setup"
    /\ finalize_calls = 0
    /\ teardown_path = "none"
    /\ failed_at = None
    /\ released = <<>>

Init ==
    /\ params \in ParamChoices
    /\ DetectorFresh
    /\ ChunkFresh(ProcessorMaxChunks)
    /\ BroadcasterFresh
    /\ ConnFresh
    /\ DecodeFresh
    /\ LoopFresh

\* ------------------------------------------- SlideKeyframeDetector

\* cooldown_passed of process_frame.
CooldownPassed(timestamp_ms) ==
    \/ last_lock_ms = None
    \/ timestamp_ms - last_lock_ms >= params.cooldown_ms

\* Faulty variant of ShouldLock: the stable duration must exceed the minimum.
ShouldLockStrict(timestamp_ms, since) ==
    /\ timestamp_ms - since > params.min_stable_duration_ms
    /\ (last_lock_ms = None \/ timestamp_ms - last_lock_ms >= params.cooldown_ms)

\* The condition under which a searching detector locks: the stable duration,
\* measured from `since`, has reached the minimum and the cooldown has passed.
ShouldLock(timestamp_ms, since) ==
    /\ timestamp_ms - since >= params.min_stable_duration_ms
    /\ CooldownPassed(timestamp_ms)

\* change_detected of process_frame.
ChangeDetected(locked_similarity, ssim_baseline) ==
    /\ locked_similarity <= params.slide_change_ssim
    /\ ssim_baseline <= params.tau_change

\* elapsed of process_frame: time since the last lock, with Python's `or`.
Elapsed(timestamp_ms) == timestamp_ms - PyOr(last_lock_ms, timestamp_ms)

\* Faulty variant of NextTransitionFrames: every frame counts once the slide has been
\* on screen long enough, flagged or not.
NextTransitionFramesCountAll(change_detected, timestamp_ms) ==
    IF timestamp_ms - PyOr(last_lock_ms, timestamp_ms) >= params.min_slide_duration_ms
    THEN transition_frames + 1
    ELSE 0

\* Faulty variant of NextTransitionFrames: an unflagged frame keeps the count.
NextTransitionFramesNoReset(change_detected, timestamp_ms) ==
    IF change_detected
    THEN IF timestamp_ms - PyOr(last_lock_ms, timestamp_ms) >= params.min_slide_duration_ms
         THEN transition_frames + 1
         ELSE 0
    ELSE transition_frames

\* Faulty variant of NextTransitionFrames: a flagged frame that comes too
\* early keeps the count.
NextTransitionFramesKeepEarly(change_detected, timestamp_ms) ==
    IF change_detected
    THEN IF timestamp_ms - PyOr(last_lock_ms, timestamp_ms) >= params.min_slide_duration_ms
         THEN transition_frames + 1
         ELSE transition_frames
    ELSE 0

\* Faulty variant of NextTransitionFrames: a flagged frame counts however
\* short the slide has been on screen.
NextTransitionFramesNoWait(change_detected, timestamp_ms) ==
    IF change_detected THEN transition_frames + 1 ELSE 0

\* The transition counter after the change test of a locked step.
NextTransitionFrames(change_detected, timestamp_ms) ==
    IF change_detected
    THEN IF Elapsed(timestamp_ms) >= params.min_slide_duration_ms
         THEN transition_frames + 1
         ELSE 0
    ELSE 0

\* The test that confirms a transition.
ConfirmReached(frames) ==
    /\ frames >= params.transition_confirm_frames
    /\ current_candidate # None

\* Faulty variant of CloseCandidate: end_ms is not assigned.
CloseCandidateKeepOpen(c, end) == c

\* Assignment of end_ms on a candidate object.
CloseCandidate(c, end) == [c EXCEPT !.end_ms = end]

\* The candidate list after _lock_slide(frame, processed, start, score, ...).
LockSlideCands(start, ssim_score) ==
    IF current_candidate # None
    THEN cands
    ELSE Append(cands, NewCandidate(start, ssim_score))

\* The start of the run of similar frames the properties measure: a frame seen
\* while searching with similarity >= tau_stable starts or continues the run,
\* any other frame seen while searching ends it.
NextRunStart(timestamp_ms, ssim_baseline) ==
    IF ssim_baseline >= params.tau_stable
    THEN IF run_start_ms = None THEN timestamp_ms ELSE run_start_ms
    ELSE None

\* process_frame on a detector that has no baseline yet: the frame seeds it.
SeedStep ==
    /\ baseline' = "frame"
    /\ completed' = <<>>
    /\ returned' = <<>>
    /\ last_ssim' = None
    /\ last_locked_sim' = None
    /\ UNCHANGED <<state, stable_since_ms, last_lock_ms, transition_frames,
                   current_candidate, locked_reference, pending_emit, cands,
                   lock_frames, ever_flagged, flagged_run, eligible_run,
                   run_start_ms, confirmed_since_lock>>

\* Faulty variant of LockReleased: the queue is returned by every searching step.
LockReleasedAlways(lock) == pending_emit

\* The candidates a searching step returns: the queue, when the step locks.
LockReleased(lock) == IF lock THEN pending_emit ELSE <<>>

\* Faulty variant of StableSinceAfter: a frame below tau_stable keeps the
\* stability-start.
StableSinceAfterKept(stable, since) == IF stable THEN since ELSE stable_since_ms

\* _stable_since_ms after a searching step: kept or started by a frame with
\* similarity >= tau_stable, cleared by any other.
StableSinceAfter(stable, since) == IF stable THEN since ELSE None

\* The searching branch of process_frame.
SearchingStep(timestamp_ms, ssim_baseline) ==
    LET since == IF stable_since_ms = None THEN timestamp_ms ELSE stable_since_ms
        stable == ssim_baseline >= params.tau_stable
        lock == stable /\ ShouldLock(timestamp_ms, since)
        created == lock /\ current_candidate = None
    IN  /\ baseline' = "ema"
        /\ last_ssim' = ssim_baseline
        /\ last_locked_sim' = None
        /\ run_start_ms' = NextRunStart(timestamp_ms, ssim_baseline)
        /\ stable_since_ms' = StableSinceAfter(stable, since)
        /\ created => Len(cands) < MaxCands
        /\ cands' = IF lock THEN LockSlideCands(since, ssim_baseline) ELSE cands
        /\ current_candidate' = IF created THEN Len(cands) + 1 ELSE current_candidate
        /\ last_lock_ms' = IF created THEN since ELSE last_lock_ms
        /\ state' = IF created THEN "locked" ELSE state
        /\ locked_reference' = IF created THEN "frame" ELSE locked_reference
        /\ lock_frames' = IF created THEN Append(lock_frames, timestamp_ms)
                           ELSE lock_frames
        /\ flagged_run' = IF created THEN 0 ELSE flagged_run
        /\ eligible_run' = IF created THEN 0 ELSE eligible_run
        /\ completed' = LockReleased(lock)
        /\ returned' = completed'
        /\ pending_emit' = IF lock THEN <<>> ELSE pending_emit
        /\ confirmed_since_lock' = IF created THEN <<>> ELSE confirmed_since_lock
        /\ UNCHANGED <<transition_frames, ever_flagged>>

\* Faulty variant of StableSinceConfirmed: a confirmation keeps the
\* stability-start of the slide that just ended.
StableSinceConfirmedKept == stable_since_ms

\* _stable_since_ms after a confirmed transition.
StableSinceConfirmed == None

\* The locked branch of process_frame.
LockedStep(timestamp_ms, ssim_baseline, ssim_reference) ==
    LET locked_similarity ==
            IF locked_reference # NoImage THEN ssim_reference ELSE ssim_baseline
        change_detected == ChangeDetected(locked_similarity, ssim_baseline)
        frames == NextTransitionFrames(change_detected, timestamp_ms)
        confirm == ConfirmReached(frames)
    IN  /\ last_ssim' = ssim_baseline
        /\ last_locked_sim' = locked_similarity
        /\ completed' = <<>>
        /\ returned' = <<>>
        /\ IF confirm
           THEN /\ cands' = [cands EXCEPT ![current_candidate] =
                                 CloseCandidate(@, timestamp_ms)]
                /\ pending_emit' = Append(pending_emit, current_candidate)
                /\ confirmed_since_lock' =
                       Append(confirmed_since_lock, current_candidate)
                /\ current_candidate' = None
                /\ state' = "searching"
                /\ stable_since_ms' = StableSinceConfirmed
                /\ run_start_ms' = None
                /\ transition_frames' = 0
                /\ locked_reference' = NoImage
                /\ baseline' = "frame"
           ELSE /\ transition_frames' = frames
                /\ baseline' = "ema"
                /\ UNCHANGED <<cands, pending_emit, confirmed_since_lock,
                               current_candidate, state, stable_since_ms,
                               run_start_ms, locked_reference>>
        /\ ever_flagged' = (ever_flagged \/ Flagged(locked_similarity, ssim_baseline))
        /\ flagged_run' = IF Flagged(locked_similarity, ssim_baseline)
                          THEN Min(flagged_run + 1, params.transition_confirm_frames)
                          ELSE 0
        /\ eligible_run' =
               IF /\ Flagged(locked_similarity, ssim_baseline)
                  /\ timestamp_ms - last_lock_ms >= params.min_slide_duration_ms
               THEN Min(eligible_run + 1, params.transition_confirm_frames)
               ELSE 0
        /\ UNCHANGED <<last_lock_ms, lock_frames>>

\* SlideKeyframeDetector.process_frame, as VideoChunkProcessor calls it: the
\* candidates of the previous call have all been passed to _persist_and_emit.
ProcessFrameCall(timestamp_ms, ssim_baseline, ssim_reference) ==
    /\ completed = <<>>
    /\ transition_frames < MaxTransitionFrames
    /\ last_timestamp_ms' = timestamp_ms
    /\ prev' = Snapshot
    /\ last_call' = "process_frame"
    /\ IF baseline = NoImage
       THEN SeedStep
       ELSE IF state = "searching"
            THEN SearchingStep(timestamp_ms, ssim_baseline)
            ELSE LockedStep(timestamp_ms, ssim_baseline, ssim_reference)
    /\ released' = released \o returned'
    /\ UNCHANGED <<params, flushed, emitvars, chunkvars, bcastvars, connvars,
                   stepvars>>

\* process_frame on the frames of a stream whose timestamps do not decrease.
ProcessFrame(timestamp_ms, ssim_baseline, ssim_reference) ==
    /\ last_timestamp_ms # None => timestamp_ms >= last_timestamp_ms
    /\ ProcessFrameCall(timestamp_ms, ssim_baseline, ssim_reference)

\* end_ms that flush gives an open candidate.
FlushEndMs(c) == PyOr(last_timestamp_ms, c.start_ms)

\* Faulty variant of FlushCands: flush stamps end_ms on every candidate it releases.
FlushCandsCloseAll ==
    [i \in DOMAIN cands |->
        IF i = current_candidate \/ \E k \in DOMAIN pending_emit : pending_emit[k] = i
        THEN [cands[i] EXCEPT !.end_ms = FlushEndMs(cands[i])]
        ELSE cands[i]]

\* The candidate objects after flush.
FlushCands ==
    IF current_candidate # None /\ cands[current_candidate].end_ms = None
    THEN [cands EXCEPT ![current_candidate] =
              CloseCandidate(@, FlushEndMs(@))]
    ELSE cands

\* Faulty variant of FlushCompleted: the open candidate is not returned.
FlushCompletedQueueOnly == pending_emit

\* The list flush returns.
FlushCompleted ==
    pending_emit \o (IF current_candidate # None
                     THEN <<current_candidate>> ELSE <<>>)

\* Faulty variant of FlushCurrent: flush does not clear the current candidate.
FlushCurrentKept == current_candidate

\* _current_candidate after flush.
FlushCurrent == None

\* SlideKeyframeDetector.flush, as VideoChunkProcessor.finalize calls it.
Flush ==
    /\ completed = <<>>
    /\ prev' = Snapshot
    /\ last_call' = "flush"
    /\ flushed' = TRUE
    /\ completed' = FlushCompleted
    /\ returned' = FlushCompleted
    /\ cands' = FlushCands
    /\ pending_emit' = <<>>
    /\ current_candidate' = FlushCurrent
    /\ locked_reference' = NoImage
    /\ released' = released \o FlushCompleted
    /\ UNCHANGED <<params, baseline, state, stable_since_ms, last_lock_ms,
                   transition_frames, last_timestamp_ms, last_ssim,
                   last_locked_sim, lock_frames, ever_flagged, flagged_run,
                   eligible_run,
                   run_start_ms, confirmed_since_lock, emitvars, chunkvars,
                   bcastvars, connvars, stepvars>>

\* ---------------------------------------------- VideoChunkProcessor

\* Whether `slide.<name> = value` succeeds on a SlideCandidate.
SetAttrOk(name) == name \in SlideCandidateSlots

\* `except Exception` around `await self.broadcaster.broadcast(payload)`: a
\* failure of the call is logged and the direct send follows.
BroadcastErrorCaught == TRUE

\* VideoChunkProcessor._persist_and_emit for the next candidate of the list
\* the detector returned; store_ok, bc_ok and ws_ok are the outcomes of
\* storage.store_image, broadcaster.broadcast and websocket.send_json where
\* the function gets to call them.  broadcast_log and ws_log record the calls.
PersistAndEmit(store_ok, bc_ok, ws_ok) ==
    /\ completed # <<>>
    /\ LET slide == Head(completed)
           called == SetAttrOk("session_id")
           stored == called /\ store_ok
           url_set == stored /\ SetAttrOk("storage_url")
           emitted == url_set /\ SetAttrOk("storage_key")
           sent == emitted /\ (bc_ok \/ BroadcastErrorCaught)
       IN  /\ store_calls' = IF called THEN store_calls \cup {slide} ELSE store_calls
           /\ store_failed' = IF called /\ ~store_ok
                              THEN store_failed \cup {slide} ELSE store_failed
           /\ cands' = IF url_set
                       THEN [cands EXCEPT ![slide].storage_url = slide]
                       ELSE cands
           /\ broadcast_log' = IF emitted THEN Append(broadcast_log, slide)
                               ELSE broadcast_log
           /\ ws_log' = IF sent THEN Append(ws_log, slide) ELSE ws_log
           /\ handled' = handled \cup {slide}
    /\ completed' = Tail(completed)
    /\ UNCHANGED <<params, detvars, histvars, chunkvars, bcastvars, connvars, stepvars,
                   released>>

\* ------------------------------------------------- VideoAccumulator

\* Truthiness of an Optional[bytes]: None and b'' are falsy.
Truthy(b) == b # NoBytes /\ b # <<>>

\* The test of add_chunk for an init segment.
IsInitSegment(chunk_bytes) ==
    /\ Len(chunk_bytes) >= 4
    /\ SubSeq(chunk_bytes, 1, 4) = Marker

\* Faulty variant of AcceptsMedia: media is buffered without an init segment.
AcceptsMediaAlways == TRUE

\* The test of add_chunk for appending a media fragment.
AcceptsMedia == has_init /\ Truthy(init_segment)

\* Faulty variant of DropOldest: the newest fragment is dropped.
DropNewest(chunks) ==
    IF Len(chunks) > max_chunks THEN SubSeq(chunks, 1, Len(chunks) - 1) ELSE chunks

\* media_chunks.pop(0) once the list is longer than max_chunks.
DropOldest(chunks) == IF Len(chunks) > max_chunks THEN Tail(chunks) ELSE chunks

\* Faulty variant of MediaAfterInit: an init segment keeps the buffered media.
MediaAfterInitKept == media_chunks

\* media_chunks after an init segment arrived.
MediaAfterInit == <<>>

RECURSIVE Flatten(_)
\* The bytes of a list of fragments, one after the other.
Flatten(chunks) ==
    IF chunks = <<>> THEN <<>> ELSE Head(chunks) \o Flatten(Tail(chunks))

\* complete_data of add_chunk: the init segment, then every media fragment.
CompleteData(init, chunks) == init \o Flatten(chunks)

\* media_chunks after add_chunk(chunk_bytes).
AddChunkMedia(chunk_bytes) ==
    IF IsInitSegment(chunk_bytes) THEN MediaAfterInit
    ELSE IF AcceptsMedia THEN DropOldest(Append(media_chunks, chunk_bytes))
    ELSE media_chunks

\* What add_chunk(chunk_bytes) returns.
AddChunkResult(chunk_bytes) ==
    IF IsInitSegment(chunk_bytes) THEN chunk_bytes
    ELSE IF AcceptsMedia
         THEN CompleteData(init_segment, AddChunkMedia(chunk_bytes))
         ELSE NoBytes

\* ---------------------------------- VideoChunkProcessor.process_chunk

\* len(frames) of _decode_frames: every fragment of the stream contributes
\* its own frames.
NFrames(bytes) == Cardinality({i \in DOMAIN bytes : bytes[i] \in FrameBytes})

\* The frames of the fragment that arrived as number a: <<a, k>> is its k-th.
FrameIds(a, bytes) == [k \in 1..NFrames(bytes) |-> <<a, k>>]

RECURSIVE FramesOf(_, _)
\* The frames of a list of fragments with their arrival numbers.
FramesOf(arrivals, chunks) ==
    IF chunks = <<>> \/ arrivals = <<>> THEN <<>>
    ELSE FrameIds(Head(arrivals), Head(chunks))
             \o FramesOf(Tail(arrivals), Tail(chunks))

\* Faulty variant of NewFrames: the whole reconstruction is processed again.
NewFramesAll(frames, cursor) == frames

\* new_frames = frames[last_frame_count:].
NewFrames(frames, cursor) == SubSeq(frames, cursor + 1, Len(frames))

\* Faulty variant of CursorAfter: the cursor is assigned before the test for
\* an empty frame list.
CursorAfterAlways(total_frames) == total_frames

\* last_frame_count when process_chunk returns: the two early returns, for no
\* accumulated bytes and for no frames, come before any assignment to it;
\* past them, both exits assign total_frames.
CursorAfter(total_frames) ==
    IF total_frames = 0 THEN last_frame_count ELSE total_frames

\* timestamp_ms of process_chunk for the frame at absolute_frame_idx:
\* base_ms + int(absolute_frame_idx * frame_interval), frame_interval being
\* 1000.0 / fps.
FrameTimestamp(base_ms, absolute_frame_idx) ==
    base_ms + (absolute_frame_idx * 1000) \div Fps

\* VideoChunkProcessor.process_chunk(chunk_bytes, metadata, ...), captured_ms
\* being the capturedAt of the metadata: add_chunk, decode, pass the frames
\* past the cursor to the detector, move the cursor.  The detector calls are
\* recorded in fed; what they do is the subject of Spec.  The fragments of
\* a connection carry capture times that do not decrease.  raise_at = 0: no
\* call of the loop raises; raise_at = k > 0: process_frame raises on the
\* k-th new frame, the exception leaves process_chunk before line 503 and
\* the handler catches it.
ProcessChunkStep(chunk_bytes, captured_ms, raise_at) ==
    LET is_init == IsInitSegment(chunk_bytes)
        accepted == is_init \/ AcceptsMedia
        accumulated_bytes == AddChunkResult(chunk_bytes)
        arrival == total_chunks_received + 1
        media == AddChunkMedia(chunk_bytes)
        init_no == IF is_init THEN arrival ELSE init_arrival
        media_nos == IF is_init THEN <<>>
                     ELSE IF AcceptsMedia
                          THEN DropOldest(Append(media_arrivals, arrival))
                          ELSE media_arrivals
        init == IF is_init THEN chunk_bytes ELSE init_segment
        total_frames == IF Truthy(accumulated_bytes)
                        THEN NFrames(accumulated_bytes) ELSE 0
        frames == IF Truthy(accumulated_bytes)
                  THEN FrameIds(init_no, init) \o FramesOf(media_nos, media)
                  ELSE <<>>
        new_frames == NewFrames(frames, last_frame_count)
    IN  /\ total_chunks_received < MaxChunksReceived
        /\ last_captured_ms # None => captured_ms >= last_captured_ms
        /\ last_captured_ms' = captured_ms
        /\ raise_at \in 0..Len(new_frames)
        /\ last_fed_ms' =
               IF new_frames = <<>> THEN last_fed_ms
               ELSE IF raise_at = 0
                    THEN FrameTimestamp(captured_ms, Len(frames) - 1)
                    ELSE FrameTimestamp(captured_ms,
                                        last_frame_count + raise_at - 1)
        /\ passed_before_raise' =
               IF raise_at = 0 THEN passed_before_raise
               ELSE passed_before_raise
                        \cup Range(SubSeq(new_frames, 1, raise_at - 1))
        /\ total_chunks_received' = arrival
        /\ init_segment' = init
        /\ media_chunks' = media
        /\ has_init' = (is_init \/ has_init)
        /\ last_frame_count' = IF raise_at = 0 THEN CursorAfter(total_frames)
                                ELSE last_frame_count
        /\ fed' = fed \o (IF raise_at = 0 THEN new_frames
                          ELSE SubSeq(new_frames, 1, raise_at))
        /\ add_result' = accumulated_bytes
        /\ last_chunk' = chunk_bytes
        /\ prev_media' = media_chunks
        /\ since_init' = IF is_init THEN <<>>
                          ELSE IF AcceptsMedia THEN Append(since_init, chunk_bytes)
                          ELSE since_init
        /\ init_arrival' = init_no
        /\ media_arrivals' = media_nos
        /\ arrived' = IF accepted
                       THEN arrived \cup Range(FrameIds(arrival, chunk_bytes))
                       ELSE arrived
        /\ decoded' = IF total_frames = 0 THEN decoded ELSE frames
        /\ prev_cursor' = last_frame_count
        /\ ever_init' = (ever_init \/ StartsWithMarker(chunk_bytes))
        /\ restarted' = (restarted \/ (is_init /\ has_init))
        /\ dropped' = (dropped \/ (~is_init /\ AcceptsMedia
                                       /\ Len(media_chunks) >= max_chunks))
        /\ UNCHANGED <<max_chunks, params, detvars, cands, completed, histvars,
                       emitvars, bcastvars, connvars, stepvars, released>>

\* process_chunk that returns.
ProcessChunkAt(chunk_bytes, captured_ms) ==
    ProcessChunkStep(chunk_bytes, captured_ms, 0)

\* process_chunk that raises on its raise_at-th new frame.
ProcessChunkRaises(chunk_bytes, raise_at) ==
    /\ raise_at > 0
    /\ ProcessChunkStep(chunk_bytes, 0, raise_at)

\* process_chunk on the fragments of a connection that all carry the first
\* capture time.
ProcessChunk(chunk_bytes) ==
    ProcessChunkAt(chunk_bytes, 0)

\* ---------------------------------------------- KeyframeBroadcaster

\* KeyframeBroadcaster.register, as keyframe_stream calls it once its
\* connection is accepted.
Register(websocket) ==
    /\ websocket \notin registered
    /\ bc_lock = None
    /\ registered' = registered \cup {websocket}
    /\ connections' = connections \cup {websocket}
    /\ failed_since' = failed_since \ {websocket}
    /\ UNCHANGED <<bc_lock, bc_state, bc_connections, bc_pos, attempts, excluded>>
    /\ UNCHANGED <<params, detvars, cands, completed, histvars, emitvars,
                   chunkvars, connvars, stepvars, released>>

\* KeyframeBroadcaster.unregister, as keyframe_stream calls it in its
\* finally block.  The call changes nothing when the subscriber is not in
\* the set (never registered, or removed by a broadcast), so the action is
\* the call that finds it there.
Unregister(websocket) ==
    /\ websocket \in connections
    /\ bc_lock = None
    /\ connections' = connections \ {websocket}
    /\ UNCHANGED <<bc_lock, registered>>
    /\ UNCHANGED <<bc_state, bc_connections, bc_pos, attempts, failed_since,
                   excluded>>
    /\ UNCHANGED <<params, detvars, cands, completed, histvars, emitvars,
                   chunkvars, connvars, stepvars, released>>

\* list(set): the elements of the set in some order.
Orderings(set) ==
    {order \in [1..Cardinality(set) -> set] :
        \A i, j \in 1..Cardinality(set) : order[i] = order[j] => i = j}

\* State of a broadcast call whose loop is at position pos of its list.
LoopState(b, list, position) ==
    IF position > Len(list) THEN "returned" ELSE "sending"

\* Faulty variant of LockAfterSnapshot: broadcast keeps the lock for its
\* loop of sends.
LockAfterSnapshotHeld(b) == b

\* The holder of the lock when broadcast leaves its `async with self._lock`
\* block, which contains the copy `list(self._connections)` and nothing else.
LockAfterSnapshot(b) == None

\* Faulty variant of SnapshotSource: broadcast copies every connection that
\* ever registered.
SnapshotSourceEver == registered

\* The set broadcast copies: `list(self._connections)`.
SnapshotSource == connections

\* broadcast up to its first await: the snapshot of the subscribers, taken
\* under the lock.  register, unregister and this block contain no await, so
\* each takes the free lock and releases it within one step.
BroadcastStart(b) ==
    /\ bc_state[b] = "idle"
    /\ bc_lock = None
    /\ \A earlier \in Broadcasts : earlier < b => bc_state[earlier] # "idle"
    /\ \E order \in Orderings(SnapshotSource) :
           /\ bc_connections' = [bc_connections EXCEPT ![b] = order]
           /\ bc_state' = [bc_state EXCEPT ![b] = LoopState(b, order, 1)]
    /\ bc_lock' = IF bc_state'[b] = "sending" THEN LockAfterSnapshot(b) ELSE None
    /\ bc_pos' = [bc_pos EXCEPT ![b] = 1]
    /\ excluded' = [excluded EXCEPT ![b] = failed_since]
    /\ UNCHANGED <<connections, registered, attempts, failed_since>>
    /\ UNCHANGED <<params, detvars, cands, completed, histvars, emitvars,
                   chunkvars, connvars, stepvars, released>>

\* Faulty variant of FailureEscapes: a failing send ends the broadcast call.
FailureEscapesAlways == TRUE

\* Whether an exception of send_json leaves the loop: `except Exception`
\* catches it.
FailureEscapes == FALSE

\* Faulty variant of ConnectionsAfterFailure: the subscriber stays registered.
ConnectionsAfterFailureKept(connection) == connections

\* _connections after the send to `connection` failed: unregister(connection).
ConnectionsAfterFailure(connection) == connections \ {connection}

\* One iteration of the loop of broadcast: send_json to the next subscriber
\* of the snapshot; ok is whether the send succeeds.  After a failed send
\* the call of unregister needs the lock.
BroadcastSend(b, ok) ==
    /\ bc_state[b] = "sending"
    /\ ~ok => bc_lock = None
    /\ LET connection == bc_connections[b][bc_pos[b]]
           escapes == ~ok /\ FailureEscapes
       IN  /\ attempts' = [attempts EXCEPT ![b] = Append(@, connection)]
           /\ connections' = IF ok \/ escapes THEN connections
                              ELSE ConnectionsAfterFailure(connection)
           /\ failed_since' = IF ok THEN failed_since
                               ELSE failed_since \cup {connection}
           /\ bc_pos' = [bc_pos EXCEPT ![b] = @ + 1]
           /\ bc_state' = [bc_state EXCEPT ![b] =
                               IF escapes THEN "raised"
                               ELSE LoopState(b, bc_connections[b], bc_pos[b] + 1)]
    /\ bc_lock' = IF bc_lock = b /\ bc_state'[b] # "sending" THEN None ELSE bc_lock
    /\ UNCHANGED <<registered, bc_connections, excluded>>
    /\ UNCHANGED <<params, detvars, cands, completed, histvars, emitvars,
                   chunkvars, connvars, stepvars, released>>

\* ------------------------------------------- one video connection
\* video_stream of main.py and handle_video_keyframe_stream.

\* How a connection leaves its receive loop: a websocket.disconnect message,
\* an exception of websocket.receive() (both `break`), or an exception that
\* leaves the loop.
TeardownPaths == {"disconnect", "receive_error", "escape"}

\* The handler reaches its `try: while True:`.
ConnEnterLoop ==
    /\ pc = "setup"
    /\ pc' = "receive"
    /\ UNCHANGED <<finalize_calls, teardown_path, failed_at, released>>
    /\ UNCHANGED <<params, detvars, cands, completed, histvars, emitvars,
                   chunkvars, bcastvars, stepvars>>

\* video_stream fails between the construction of its processor and its
\* `try`: sending connection_ack or get_or_create_session raises.  The
\* handler ends in the outer except clauses.
ConnSetupFails ==
    /\ pc = "setup"
    /\ pc' = "done"
    /\ teardown_path' = "setup_error"
    /\ UNCHANGED <<finalize_calls, failed_at, released>>
    /\ UNCHANGED <<params, detvars, cands, completed, histvars, emitvars,
                   chunkvars, bcastvars, stepvars>>

\* process_chunk passes one frame to the detector.
ConnProcessFrame(timestamp_ms, ssim_baseline, ssim_reference) ==
    /\ pc = "receive"
    /\ ProcessFrame(timestamp_ms, ssim_baseline, ssim_reference)

\* process_chunk or finalize passes the next returned candidate to
\* _persist_and_emit.
ConnPersistAndEmit(store_ok, bc_ok, ws_ok) ==
    /\ pc \in {"receive", "finalize"}
    /\ PersistAndEmit(store_ok, bc_ok, ws_ok)

\* Where process_chunk can raise an Exception: in _decode_frames, before any
\* frame is passed on, or in detector.process_frame, which has stored the
\* frame's timestamp before it touches the image.  (_persist_and_emit
\* catches what its own steps raise.)
ChunkFailures == {"decode", "detector"}

\* Faulty variant of the handlers: the exception of process_chunk leaves the
\* receive loop.
ChunkErrorEscapesAlways == TRUE

\* `except Exception` around `await processor.process_chunk(...)`: the error
\* is logged and the loop goes on to the next receive().
ChunkErrorEscapes == FALSE

\* process_chunk raises while it handles one fragment.
ConnChunkFails(kind, timestamp_ms) ==
    /\ pc = "receive"
    /\ completed = <<>>
    /\ last_timestamp_ms # None => timestamp_ms >= last_timestamp_ms
    /\ last_timestamp_ms' =
           IF kind = "detector" THEN timestamp_ms ELSE last_timestamp_ms
    /\ failed_at' = Len(cands)
    /\ pc' = IF ChunkErrorEscapes THEN "finalize" ELSE "receive"
    /\ finalize_calls' =
           IF ChunkErrorEscapes THEN finalize_calls + 1 ELSE finalize_calls
    /\ teardown_path' =
           IF ChunkErrorEscapes THEN "chunk_error" ELSE teardown_path
    /\ UNCHANGED <<baseline, state, stable_since_ms, last_lock_ms,
                   transition_frames, current_candidate, locked_reference,
                   pending_emit>>
    /\ UNCHANGED <<params, cands, completed, histvars, emitvars, chunkvars,
                   bcastvars, released, stepvars>>

\* The loop ends and the `finally` block calls processor.finalize.  The two
\* `break`s happen at receive(), between chunks; an exception that leaves the
\* loop (one `except Exception` does not catch, such as a cancellation) may
\* also come while process_chunk is emitting, and the candidates it has not
\* emitted yet are abandoned.
ConnTeardown(path) ==
    /\ pc = "receive"
    /\ path # "escape" => completed = <<>>
    /\ pc' = "finalize"
    /\ finalize_calls' = finalize_calls + 1
    /\ teardown_path' = path
    /\ completed' = <<>>
    /\ UNCHANGED <<params, detvars, cands, histvars, emitvars, chunkvars,
                   bcastvars, failed_at, released, stepvars>>

\* finalize calls detector.flush().
ConnFlush ==
    /\ pc = "finalize"
    /\ ~flushed
    /\ Flush

\* finalize has emitted what flush returned; the handler ends.
ConnDone ==
    /\ pc = "finalize"
    /\ flushed
    /\ completed = <<>>
    /\ pc' = "done"
    /\ UNCHANGED <<finalize_calls, teardown_path, failed_at, released>>
    /\ UNCHANGED <<params, detvars, cands, completed, histvars, emitvars,
                   chunkvars, bcastvars, stepvars>>

\* ------------------------------------------------- _decode_frames
\* One call, step by step.  Frames are counted, fps is in hundredths.

\* float('nan') as capture.get(cv2.CAP_PROP_FPS) may return it.
NaN == -2

\* fps = 30.0
DefaultFps == 3000

\* What capture.get(cv2.CAP_PROP_FPS) returns.
RawFpsValues == {0, NaN, 2500, DefaultFps, 6000}

\* How the ffmpeg run ends: it returns, or raises ffmpeg.Error with
\* 'EBML header parsing failed' or 'Invalid data found' in its stderr
\* (incomplete), or raises ffmpeg.Error with another stderr (failed).
TranscodeOutcomes == {"ok", "incomplete", "failed"}

\* `if not fps or np.isnan(fps): fps = 30.0`
PyFps(raw) == IF raw = 0 \/ raw = NaN THEN DefaultFps ELSE raw

\* `fps if frames else 0.0`
ReturnedFps(n, fps) == IF n > 0 THEN fps ELSE 0

\* Faulty variant of the function: ffmpeg.Error is not caught.
TranscodeErrorCaughtNever == FALSE

\* `except ffmpeg.Error as e:` around the ffmpeg run.
TranscodeErrorCaught == TRUE

\* The call, up to the ffmpeg run: empty input returns at once, otherwise
\* both temporary files are created.
DecodeStart(chunk_bytes) ==
    /\ dec_pc \in {"idle", "returned"}
    /\ dec_chunk' = chunk_bytes
    /\ transcode' = "none"
    /\ dec_frames' = 0
    /\ dec_exit' = "none"
    /\ dec_pending' = <<>>
    /\ IF chunk_bytes = <<>>
       THEN /\ dec_pc' = "returned"
            /\ dec_result' = <<0, 0>>
            /\ dec_fps' = 0
            /\ tmp_files' = tmp_files
       ELSE /\ dec_pc' = "transcode"
            /\ dec_result' = <<>>
            /\ dec_fps' = DefaultFps
            /\ tmp_files' = tmp_files \cup {"input", "output"}
    /\ UNCHANGED <<params, detvars, cands, completed, histvars, emitvars,
                   chunkvars, bcastvars, connvars, released, loopvars>>

\* The ffmpeg run ends.  When it fails it may or may not leave the output
\* file behind.
DecodeTranscode(outcome, output_left) ==
    /\ dec_pc = "transcode"
    /\ transcode' = outcome
    /\ tmp_files' = IF outcome = "ok" \/ output_left
                    THEN tmp_files ELSE tmp_files \ {"output"}
    /\ IF outcome = "ok"
       THEN /\ dec_pc' = "read"
            /\ UNCHANGED <<dec_exit, dec_pending>>
       ELSE IF ~TranscodeErrorCaught
       THEN /\ dec_pc' = "cleanup"
            /\ dec_exit' = "raise"
            /\ UNCHANGED dec_pending
       ELSE IF outcome = "incomplete"
       THEN /\ dec_pc' = "cleanup"
            /\ dec_exit' = "return"
            /\ dec_pending' = <<0, 0>>
       ELSE /\ dec_pc' = "read"
            /\ UNCHANGED <<dec_exit, dec_pending>>
    /\ UNCHANGED <<dec_chunk, dec_frames, dec_fps, dec_result>>
    /\ UNCHANGED <<params, detvars, cands, completed, histvars, emitvars,
                   chunkvars, bcastvars, connvars, released, loopvars>>

\* cv2.VideoCapture reads the output file, or the input file in the
\* fallback after a failed run, until read() fails; the fallback returns
\* inside the try block.
DecodeRead(raw_fps, n) ==
    /\ dec_pc = "read"
    /\ dec_fps' = PyFps(raw_fps)
    /\ dec_frames' = n
    /\ dec_pc' = "cleanup"
    /\ IF transcode = "failed"
       THEN /\ dec_exit' = "return"
            /\ dec_pending' = <<n, ReturnedFps(n, PyFps(raw_fps))>>
       ELSE UNCHANGED <<dec_exit, dec_pending>>
    /\ UNCHANGED <<dec_chunk, tmp_files, transcode, dec_result>>
    /\ UNCHANGED <<params, detvars, cands, completed, histvars, emitvars,
                   chunkvars, bcastvars, connvars, released, loopvars>>

\* The `finally` block unlinks both files, ignoring the ones that are gone;
\* then the pending return or exception takes effect, or the function's
\* last line returns.
DecodeCleanup ==
    /\ dec_pc = "cleanup"
    /\ tmp_files' = tmp_files \ {"input", "output"}
    /\ dec_pc' = IF dec_exit = "raise" THEN "raised" ELSE "returned"
    /\ dec_result' =
           IF dec_exit = "return" THEN dec_pending
           ELSE IF dec_exit = "none"
           THEN <<dec_frames, ReturnedFps(dec_frames, dec_fps)>>
           ELSE <<>>
    /\ UNCHANGED <<dec_chunk, transcode, dec_frames, dec_fps, dec_exit,
                   dec_pending>>
    /\ UNCHANGED <<params, detvars, cands, completed, histvars, emitvars,
                   chunkvars, bcastvars, connvars, released, loopvars>>

\* ------------------------------------------------- the event loop
\* The handlers of the video connections are tasks of one asyncio event
\* loop: a task that executes keeps the loop until it reaches an `await`
\* that suspends it, and a suspended task resumes only when no task executes.

Tasks == 1..MaxTasks

\* A fragment reaches the socket of a connection.
Arrive(t) ==
    /\ loop_arrived[t] < MaxArrivals
    /\ loop_arrived' = [loop_arrived EXCEPT ![t] = @ + 1]
    /\ UNCHANGED <<task_pc, running, loop_taken>>
    /\ UNCHANGED <<params, detvars, cands, completed, histvars, emitvars,
                   chunkvars, bcastvars, connvars, released, decvars>>

\* The event loop resumes a suspended handler: `await websocket.receive()`
\* returns a fragment and process_chunk goes through add_chunk into
\* _decode_frames, or the send of _persist_and_emit has completed and
\* process_chunk goes on with its frames.
TaskResume(t) ==
    /\ running = None
    /\ \/ /\ task_pc[t] = "receive"
          /\ loop_taken[t] < loop_arrived[t]
          /\ loop_taken' = [loop_taken EXCEPT ![t] = @ + 1]
          /\ task_pc' = [task_pc EXCEPT ![t] = "decode"]
       \/ /\ task_pc[t] = "deliver"
          /\ task_pc' = [task_pc EXCEPT ![t] = "detect"]
          /\ UNCHANGED loop_taken
    /\ running' = t
    /\ UNCHANGED loop_arrived
    /\ UNCHANGED <<params, detvars, cands, completed, histvars, emitvars,
                   chunkvars, bcastvars, connvars, released, decvars>>

\* `frames, fps = _decode_frames(accumulated_bytes)` returns: a plain call,
\* nothing is awaited.  Without frames process_chunk returns and the handler
\* suspends in its next receive().
TaskDecode(t, has_frames) ==
    /\ running = t
    /\ task_pc[t] = "decode"
    /\ task_pc' = [task_pc EXCEPT ![t] = IF has_frames THEN "detect" ELSE "receive"]
    /\ running' = IF has_frames THEN t ELSE None
    /\ UNCHANGED <<loop_arrived, loop_taken>>
    /\ UNCHANGED <<params, detvars, cands, completed, histvars, emitvars,
                   chunkvars, bcastvars, connvars, released, decvars>>

\* The frame loop of process_chunk: detector.process_frame returns a
\* candidate, which goes to _persist_and_emit, or the frames are used up
\* and the handler suspends in its next receive().
TaskDetect(t, candidate) ==
    /\ running = t
    /\ task_pc[t] = "detect"
    /\ task_pc' = [task_pc EXCEPT ![t] = IF candidate THEN "persist" ELSE "receive"]
    /\ running' = IF candidate THEN t ELSE None
    /\ UNCHANGED <<loop_arrived, loop_taken>>
    /\ UNCHANGED <<params, detvars, cands, completed, histvars, emitvars,
                   chunkvars, bcastvars, connvars, released, decvars>>

\* The try block of _persist_and_emit: the attribute assignments and
\* storage.store_image are plain calls.  Only a candidate that gets through
\* them reaches `await self.broadcaster.broadcast(payload)`, where the
\* handler suspends.
TaskPersist(t, store_ok) ==
    /\ running = t
    /\ task_pc[t] = "persist"
    /\ LET emitted == /\ SetAttrOk("session_id")
                      /\ store_ok
                      /\ SetAttrOk("storage_url")
                      /\ SetAttrOk("storage_key")
       IN  /\ task_pc' = [task_pc EXCEPT ![t] = IF emitted THEN "deliver" ELSE "detect"]
           /\ running' = IF emitted THEN None ELSE t
    /\ UNCHANGED <<loop_arrived, loop_taken>>
    /\ UNCHANGED <<params, detvars, cands, completed, histvars, emitvars,
                   chunkvars, bcastvars, connvars, released, decvars>>

Next ==
    \/ \E timestamp_ms \in Times, ssim_baseline \in SsimBaselineValues,
          ssim_reference \in SsimLockedValues :
           ProcessFrame(timestamp_ms, ssim_baseline, ssim_reference)
    \/ Flush
    \/ \E store_ok \in BOOLEAN, bc_ok \in BOOLEAN, ws_ok \in BOOLEAN :
           PersistAndEmit(store_ok, bc_ok, ws_ok)

Spec == Init /\ [][Next]_vars

\* The fragment path of one processor: a fresh accumulator and cursor, fed
\* any sequence of fragments.
ChunkInit ==
    /\ params = DefaultParams
    /\ DetectorFresh
    /\ \E n \in MaxChunksChoices : ChunkFresh(n)
    /\ BroadcasterFresh
    /\ ConnFresh
    /\ DecodeFresh
    /\ LoopFresh

ChunkNext == \E chunk_bytes \in Chunks : ProcessChunk(chunk_bytes)

ChunkSpec == ChunkInit /\ [][ChunkNext]_vars

\* The fragment path with capture times: the processor as it is constructed,
\* fed any sequence of fragments stamped with capture times that do not
\* decrease.
StampInit ==
    /\ ChunkInit
    /\ max_chunks = ProcessorMaxChunks

StampNext ==
    \E chunk_bytes \in Chunks, captured_ms \in CaptureTimes :
        ProcessChunkAt(chunk_bytes, captured_ms)

StampSpec == StampInit /\ [][StampNext]_vars

\* The fragment path with failures: any call of process_chunk may raise on
\* one of its new frames; the handler logs the exception and goes on with
\* the next fragment.
RaiseNext ==
    \/ \E chunk_bytes \in Chunks : ProcessChunk(chunk_bytes)
    \/ \E chunk_bytes \in Chunks, raise_at \in 1..MaxRaiseAt :
           ProcessChunkRaises(chunk_bytes, raise_at)

RaiseSpec == StampInit /\ [][RaiseNext]_vars

\* The broadcaster: subscribers come and go while broadcast calls, made by
\* the processors of the video connections, run and overlap.
BcastInit ==
    /\ params = DefaultParams
    /\ DetectorFresh
    /\ ChunkFresh(ProcessorMaxChunks)
    /\ BroadcasterFresh
    /\ ConnFresh
    /\ DecodeFresh
    /\ LoopFresh

BcastNext ==
    \/ \E websocket \in Subscribers : Register(websocket)
    \/ \E websocket \in Subscribers : Unregister(websocket)
    \/ \E b \in Broadcasts : BroadcastStart(b)
    \/ \E b \in Broadcasts, ok \in BOOLEAN : BroadcastSend(b, ok)

BcastSpec == BcastInit /\ [][BcastNext]_vars

\* The broadcaster's lock: the same calls, with the number of broadcast calls
\* bounded on its own.
LockNext ==
    \/ \E websocket \in Subscribers : Register(websocket)
    \/ \E websocket \in Subscribers : Unregister(websocket)
    \/ \E b \in 1..MaxLockBroadcasts : BroadcastStart(b)
    \/ \E b \in 1..MaxLockBroadcasts, ok \in BOOLEAN : BroadcastSend(b, ok)

LockSpec == BcastInit /\ [][LockNext]_vars

\* The locked branch of process_frame as a function: a detector that earlier
\* calls have left locked on its first slide, with any last-lock timestamp,
\* any last timestamp and any value of the transition counter that calls
\* can produce, is given one more frame with any timestamp, lower than the
\* last one included.
LockedInit ==
    /\ params \in ParamChoices
    /\ \E lock_ms \in Times, last_ms \in Times,
          counted \in 0..(params.transition_confirm_frames - 1) :
           /\ counted > 0 =>
                  /\ lock_ms # 0
                  /\ last_ms - lock_ms >= params.min_slide_duration_ms
           /\ baseline = "ema"
           /\ state = "locked"
           /\ stable_since_ms = lock_ms
           /\ last_lock_ms = lock_ms
           /\ transition_frames = counted
           /\ current_candidate = 1
           /\ locked_reference = "frame"
           /\ pending_emit = <<>>
           /\ last_timestamp_ms = last_ms
           /\ cands = <<NewCandidate(lock_ms, 90)>>
           /\ lock_frames = <<lock_ms + params.min_stable_duration_ms>>
           /\ ever_flagged = (counted > 0)
           /\ flagged_run = counted
           /\ eligible_run = counted
           /\ run_start_ms = lock_ms
    /\ completed = <<>>
    /\ broadcast_log = <<>>
    /\ ws_log = <<>>
    /\ last_call = "earlier"
    /\ last_ssim = None
    /\ last_locked_sim = None
    /\ confirmed_since_lock = <<>>
    /\ returned = <<>>
    /\ flushed = FALSE
    /\ handled = {}
    /\ store_calls = {}
    /\ store_failed = {}
    /\ prev = Snapshot
    /\ ChunkFresh(ProcessorMaxChunks)
    /\ BroadcasterFresh
    /\ ConnFresh
    /\ DecodeFresh
    /\ LoopFresh

LockedNext ==
    \E timestamp_ms \in Times, ssim_baseline \in SsimBaselineValues,
       ssim_reference \in SsimLockedValues :
        /\ last_call = "earlier"
        /\ ProcessFrameCall(timestamp_ms, ssim_baseline, ssim_reference)

LockedSpec == LockedInit /\ [][LockedNext]_vars

\* Calls of _decode_frames, one after the other, on any bytes and with any
\* outcome of the transcoding and of the reading.
DecodeNext ==
    \/ \E chunk_bytes \in Chunks \cup {<<>>} : DecodeStart(chunk_bytes)
    \/ \E outcome \in TranscodeOutcomes, output_left \in BOOLEAN :
           DecodeTranscode(outcome, output_left)
    \/ \E raw_fps \in RawFpsValues, n \in 0..MaxDecodedFrames :
           DecodeRead(raw_fps, n)
    \/ DecodeCleanup

DecodeSpec == BcastInit /\ [][DecodeNext]_vars

\* The handlers of several video connections on one event loop.
LoopNext ==
    \/ \E t \in Tasks : Arrive(t)
    \/ \E t \in Tasks : TaskResume(t)
    \/ \E t \in Tasks, has_frames \in BOOLEAN : TaskDecode(t, has_frames)
    \/ \E t \in Tasks, candidate \in BOOLEAN : TaskDetect(t, candidate)
    \/ \E t \in Tasks, store_ok \in BOOLEAN : TaskPersist(t, store_ok)

LoopSpec == BcastInit /\ [][LoopNext]_vars

\* One video connection from the construction of its processor to the end of
\* its handler.
ConnNext ==
    \/ ConnEnterLoop
    \/ ConnSetupFails
    \/ \E timestamp_ms \in Times, ssim_baseline \in SsimBaselineValues,
          ssim_reference \in SsimLockedValues :
           ConnProcessFrame(timestamp_ms, ssim_baseline, ssim_reference)
    \/ \E store_ok \in BOOLEAN, bc_ok \in BOOLEAN, ws_ok \in BOOLEAN :
           ConnPersistAndEmit(store_ok, bc_ok, ws_ok)
    \/ \E kind \in ChunkFailures, timestamp_ms \in Times :
           ConnChunkFails(kind, timestamp_ms)
    \/ \E path \in TeardownPaths : ConnTeardown(path)
    \/ ConnFlush
    \/ ConnDone

ConnSpec == Init /\ [][ConnNext]_vars

\* ------------------------------------------------------- properties

Count(seq, x) == Cardinality({i \in DOMAIN seq : seq[i] = x})

\* Candidates whose end_ms is still null.
OpenCandidates == {i \in DOMAIN cands : cands[i].end_ms = None}

\* The last frame was processed while locked and had change flagged.
LastFlagged ==
    /\ last_locked_sim # None
    /\ Flagged(last_locked_sim, last_ssim)

\* The last detector call was a process_frame that locked.
LockStep ==
    /\ last_call = "process_frame"
    /\ prev.state = "searching"
    /\ state = "locked"

\* The last detector call was a process_frame that confirmed a transition.
ConfirmStep ==
    /\ last_call = "process_frame"
    /\ prev.state = "locked"
    /\ state = "searching"

\* C1: every candidate that _persist_and_emit has handled and for which
\* store_image did not fail was sent exactly once to the broadcaster and
\* exactly once to the originating connection.
C1_StoredCandidateDelivered ==
    \A c \in handled :
        c \notin store_failed =>
            /\ Count(broadcast_log, c) = 1
            /\ Count(ws_log, c) = 1

\* C2: process_frame returns a non-empty list only on a step that takes the
\* detector from searching to locked; on such a step (flush, which the
\* processor calls only at teardown, not having run before) the list is
\* exactly the candidates confirmed since the previous lock; and every
\* candidate of a returned list (process_frame or flush) has end_ms set.
C2_DelayedRelease ==
    /\ (last_call = "process_frame" /\ returned # <<>>) => LockStep
    /\ (LockStep /\ ~flushed) => returned = prev.confirmed_since_lock
    /\ \A i \in DOMAIN returned : cands[returned[i]].end_ms # None

C2_Witness ==
    /\ LockStep
    /\ ~flushed
    /\ Len(returned) = 1
    /\ completed = returned

\* C3: at most one candidate is open (end_ms null), and it is the one the
\* detector holds as its current candidate.
C3_AtMostOneOpen ==
    /\ Cardinality(OpenCandidates) <= 1
    /\ \A i \in OpenCandidates : i = current_candidate

C3_Witness ==
    /\ Len(cands) = 2
    /\ OpenCandidates = {2}
    /\ cands[1].end_ms # None

\* C4: once a candidate's end_ms is set, no step (process_frame, flush,
\* _persist_and_emit) changes it, and no candidate disappears.
C4_EndMsSetOnce ==
    [][\A i \in DOMAIN cands :
           /\ i \in DOMAIN cands'
           /\ cands[i].end_ms # None => cands'[i].end_ms = cands[i].end_ms]_vars

C4_Witness ==
    /\ Len(cands) = 2
    /\ cands[1].end_ms # None
    /\ cands[2].end_ms # None
    /\ flushed
    /\ handled = {1, 2}
    /\ last_call = "process_frame"

\* C5: a detector that has never locked locks as soon as a run of frames with
\* similarity >= tau_stable spans min_stable_duration_ms; as long as no change
\* has been flagged it has locked at most once; and that candidate's end_ms
\* stays null until a transition is confirmed (which needs flagged frames) or
\* flush is called.
C5_LocksOnceStaysOpen ==
    /\ (Len(cands) = 0 /\ state = "searching" /\ run_start_ms # None) =>
           last_timestamp_ms - run_start_ms < params.min_stable_duration_ms
    /\ ~ever_flagged => Len(cands) <= 1
    /\ (Len(cands) = 1 /\ ~ever_flagged /\ ~flushed) =>
           /\ state = "locked"
           /\ current_candidate = 1
           /\ cands[1].end_ms = None

C5_Witness ==
    /\ Len(cands) = 1
    /\ ~ever_flagged
    /\ ~flushed
    /\ state = "locked"
    /\ cands[1].end_ms = None
    /\ last_timestamp_ms >= lock_frames[1] + params.min_stable_duration_ms

\* C6 as stated: while searching, the detector locks at the first frame whose
\* timestamp is at least min_stable_duration_ms after the first frame of the
\* current run of similarity >= tau_stable, with start_ms the timestamp of
\* that first frame of the run.
C6_LocksAfterMinStable ==
    /\ (state = "searching" /\ run_start_ms # None) =>
           last_timestamp_ms - run_start_ms < params.min_stable_duration_ms
    /\ LockStep =>
           /\ cands[current_candidate].start_ms = run_start_ms
           /\ last_timestamp_ms - run_start_ms >= params.min_stable_duration_ms

\* C6 as amended: a searching detector whose run spans min_stable_duration_ms
\* has not locked only if the cooldown has not passed, the cooldown being
\* measured from the start_ms of the previous candidate; a lock takes
\* start_ms from the first frame of the run; and the frame that seeds the
\* baseline has no similarity, so it starts no run.
C6_LocksAfterMinStableAndCooldown ==
    /\ (last_call = "process_frame" /\ last_ssim = None) =>
           /\ run_start_ms = None
           /\ stable_since_ms = None
           /\ cands = <<>>
    /\ (/\ state = "searching"
        /\ run_start_ms # None
        /\ last_timestamp_ms - run_start_ms >= params.min_stable_duration_ms) =>
           /\ Len(cands) >= 1
           /\ last_timestamp_ms - cands[Len(cands)].start_ms < params.cooldown_ms
    /\ LockStep =>
           /\ cands[current_candidate].start_ms = run_start_ms
           /\ last_timestamp_ms - run_start_ms >= params.min_stable_duration_ms
           /\ current_candidate > 1 =>
                  last_timestamp_ms - cands[current_candidate - 1].start_ms
                      >= params.cooldown_ms

\* The scenario of C6: default parameters, the run starts at t=0 and the lock
\* happens while the t=1000 frame is processed, with start_ms = 0.
C6_Witness ==
    /\ params = DefaultParams
    /\ LockStep
    /\ last_timestamp_ms = 1000
    /\ cands[current_candidate].start_ms = 0

\* C7: a lock at the frame with timestamp T is followed by no lock at a frame
\* with timestamp below T + cooldown_ms.
C7_NoLockWithinCooldown ==
    \A i \in DOMAIN lock_frames :
        i > 1 => lock_frames[i] - lock_frames[i - 1] >= params.cooldown_ms

\* C8: while a candidate is open, a flagged frame leaves the transition
\* counter at 0 when fewer than min_slide_duration_ms have elapsed since the
\* frame at which the lock occurred, and counts (or confirms) otherwise.
C8_ElapsedFromLockFrame ==
    (/\ last_call = "process_frame"
     /\ prev.state = "locked"
     /\ prev.current_candidate # None
     /\ LastFlagged) =>
        IF last_timestamp_ms - lock_frames[prev.current_candidate]
               < params.min_slide_duration_ms
        THEN state = "locked" /\ transition_frames = 0
        ELSE \/ state = "locked" /\ transition_frames = prev.transition_frames + 1
             \/ /\ state = "searching"
                /\ prev.transition_frames + 1 >= params.transition_confirm_frames

\* C9: a frame processed while locked that is not flagged sets the transition
\* counter to 0 and leaves the candidate open and the state locked, whatever
\* the counter was; and a transition is confirmed only by a frame that ends a
\* run of transition_confirm_frames consecutive flagged frames.
C9_UnflaggedFrameResets ==
    /\ (last_call = "process_frame" /\ prev.state = "locked" /\ ~LastFlagged) =>
           /\ transition_frames = 0
           /\ state = "locked"
           /\ current_candidate = prev.current_candidate
           /\ current_candidate # None =>
                  cands[current_candidate].end_ms = None
    /\ ConfirmStep => flagged_run >= params.transition_confirm_frames

C9_Witness ==
    /\ last_call = "process_frame"
    /\ prev.state = "locked"
    /\ prev.current_candidate # None
    /\ prev.transition_frames = params.transition_confirm_frames - 1
    /\ ~LastFlagged
    /\ transition_frames = 0
    /\ cands[current_candidate].end_ms = None

\* C10: flush on a detector with no open and no queued candidate returns the
\* empty list and changes no detector field and no candidate; and a flush
\* that directly follows a flush returns the empty list.
C10_FlushIdempotent ==
    [][Flush =>
         /\ (current_candidate = None /\ pending_emit = <<>>) =>
                /\ returned' = <<>>
                /\ UNCHANGED <<detvars, cands>>
         /\ last_call = "flush" => returned' = <<>>]_vars

C10_Witness ==
    /\ last_call = "flush"
    /\ prev.last_call = "flush"
    /\ returned = <<>>
    /\ handled # {}
    /\ Len(cands) = 2

\* C11: flush returns the queued candidates followed by the open candidate, if
\* there is one, and gives the open candidate the timestamp of the last frame
\* passed to process_frame as end_ms, whatever integer that timestamp is.
C11_FlushClosesAtLastTimestamp ==
    [][Flush =>
         /\ returned' = pending_emit \o (IF current_candidate # None
                                          THEN <<current_candidate>> ELSE <<>>)
         /\ current_candidate # None =>
                cands'[current_candidate].end_ms = last_timestamp_ms]_vars

\* The reassembler has dropped no fragment and no init segment has replaced
\* an earlier one: every reconstruction extends the one before.
NoDropNoRestart == ~dropped /\ ~restarted

\* C12: last_frame_count never decreases over any sequence of process_chunk
\* calls.
C12_CursorNeverDecreases ==
    [][last_frame_count' >= last_frame_count]_vars

C14_NoFrameTwiceOrSkipped ==
    \A f \in arrived : Count(fed, f) = 1

\* C15: an accumulator that has received no fragment starting with the init
\* marker has returned None from every add_chunk and holds nothing.
C15_NothingWithoutInit ==
    ~ever_init =>
        /\ add_result = NoBytes
        /\ media_chunks = <<>>
        /\ init_segment = NoBytes
        /\ ~has_init
        /\ fed = <<>>

C15_Witness ==
    /\ ~ever_init
    /\ total_chunks_received >= 3
    /\ last_chunk = <<26, 69, 223>>
    /\ add_result = NoBytes

\* C16: while an init segment is held, the buffer holds exactly the last
\* min(n, max_chunks) of the n media fragments received since that init, in
\* arrival order, never more than max_chunks; and add_chunk of a media
\* fragment returned the init segment followed by the buffered fragments.
C16_WindowOfLastFragments ==
    /\ Len(media_chunks) <= max_chunks
    /\ has_init =>
           LET n == Len(since_init)
               m == Min(n, max_chunks)
           IN  /\ media_chunks = [k \in 1..m |-> since_init[n - m + k]]
               /\ (last_chunk # NoBytes /\ ~StartsWithMarker(last_chunk)) =>
                      add_result = init_segment \o Flatten(media_chunks)

\* The scenario of C16: bound 2, four media fragments after the init segment.
C16_Witness ==
    /\ max_chunks = 2
    /\ Len(since_init) = 4
    /\ since_init[2] # since_init[3]
    /\ since_init[3] # since_init[4]
    /\ media_chunks = <<since_init[3], since_init[4]>>
    /\ add_result = init_segment \o since_init[3] \o since_init[4]

\* C17: after add_chunk of a fragment that starts with the init marker, in any
\* buffer state, no media fragment is buffered, that fragment is the init
\* segment, and it is what add_chunk returned.
C17_InitRestartsStream ==
    (last_chunk # NoBytes /\ StartsWithMarker(last_chunk)) =>
        /\ media_chunks = <<>>
        /\ init_segment = last_chunk
        /\ has_init
        /\ add_result = last_chunk

C17_Witness ==
    /\ StartsWithMarker(last_chunk)
    /\ restarted
    /\ Len(prev_media) = max_chunks
    /\ media_chunks = <<>>
    /\ add_result = last_chunk

\* The subscribers of the snapshot of broadcast call b.
SnapshotOf(b) == Range(bc_connections[b])

\* C18: a broadcast call that has returned made exactly one send to every
\* subscriber of its snapshot, in the order of the snapshot, whichever of the
\* sends failed; and no broadcast call raises.
C18_BroadcastReachesAll ==
    \A b \in Broadcasts :
        /\ bc_state[b] # "raised"
        /\ bc_state[b] = "returned" =>
               /\ attempts[b] = bc_connections[b]
               /\ \A sub \in SnapshotOf(b) : Count(attempts[b], sub) = 1

\* Three subscribers; the only broadcast call so far has returned, its first
\* send failed and its other two succeeded.
C18_Witness ==
    /\ bc_state[1] = "returned"
    /\ bc_state[2] = "idle"
    /\ Len(attempts[1]) = 3
    /\ failed_since = {attempts[1][1]}

\* C19: a subscriber whose send failed is not in the subscriber set (it has
\* not registered since), and a broadcast call started after the failure
\* makes no send to it.
C19_FailedSubscriberRemoved ==
    /\ failed_since \cap connections = {}
    /\ \A b \in Broadcasts :
           /\ SnapshotOf(b) \cap excluded[b] = {}
           /\ Range(attempts[b]) \cap excluded[b] = {}

\* The scenario of C19: three subscribers, one failing; the first broadcast
\* removes it and sends to all three, the second, started after the failure,
\* sends only to the other two, and no other send fails.
C19_Witness ==
    /\ bc_state[1] = "returned"
    /\ bc_state[2] = "returned"
    /\ Len(attempts[1]) = 3
    /\ Cardinality(failed_since) = 1
    /\ excluded[2] = failed_since
    /\ Len(attempts[2]) = 2
    /\ SnapshotOf(2) = SnapshotOf(1) \ failed_since
    /\ connections = SnapshotOf(2)

\* Over the life of the connection the detector has returned every candidate
\* it created exactly once.
AllReleasedOnce == \A i \in DOMAIN cands : Count(released, i) = 1

C21_ChunkErrorKeepsLoop ==
    /\ teardown_path # "chunk_error"
    /\ (failed_at # None /\ teardown_path = "none") => pc = "receive"
    /\ pc \in {"finalize", "done"} =>
           teardown_path \in TeardownPaths \cup {"setup_error"}
    /\ pc = "receive" => finalize_calls = 0

\* process_chunk raised before any slide was locked; the loop went on, and a
\* later fragment's frame locked the first slide.
C21_Witness ==
    /\ pc = "receive"
    /\ failed_at = 0
    /\ Len(cands) = 1
    /\ last_call = "process_frame"
    /\ state = "locked"

\* C22: when persisting one candidate fails, that candidate alone is dropped
\* (no event for it reaches the broadcaster or the originating connection),
\* nothing is raised out of _persist_and_emit (the caller goes on with the
\* next candidate), and a candidate whose persistence does not fail is stored
\* and passed to both delivery targets, whatever happened to the others.
C22_PersistFailureDropsOneOnly ==
    [][\A store_ok \in BOOLEAN, bc_ok \in BOOLEAN, ws_ok \in BOOLEAN :
          PersistAndEmit(store_ok, bc_ok, ws_ok) =>
              LET slide == Head(completed)
              IN  /\ completed' = Tail(completed)
                  /\ ~store_ok =>
                         /\ Count(broadcast_log', slide) = 0
                         /\ Count(ws_log', slide) = 0
                  /\ store_ok =>
                         /\ cands'[slide].storage_url # None
                         /\ Count(broadcast_log', slide) = 1
                         /\ Count(ws_log', slide) = 1]_vars

C24_DecodeReturnsPairAndCleansUp ==
    /\ dec_pc # "raised"
    /\ dec_pc \in {"idle", "returned"} => tmp_files = {}
    /\ dec_pc = "returned" =>
           /\ Len(dec_result) = 2
           /\ dec_result[1] \in 0..MaxDecodedFrames
           /\ dec_result[2] = 0 <=> dec_result[1] = 0
           /\ transcode = "incomplete" => dec_result = <<0, 0>>
           /\ dec_chunk = <<>> => dec_result = <<0, 0>>

\* A call on truncated bytes whose transcoding failed with the message of
\* incomplete data: it returned ([], 0) and both files are gone.
C24_Witness ==
    /\ dec_pc = "returned"
    /\ dec_chunk = <<26, 69, 223>>
    /\ transcode = "incomplete"
    /\ dec_exit = "return"
    /\ dec_result = <<0, 0>>
    /\ tmp_files = {}

\* C25: while one connection's pipeline is inside the decode step or the
\* image-persistence step of process_chunk, another connection's handler
\* that has a fragment waiting can still take a step.
C25_OthersRunDuringDecodeAndPersist ==
    \A a \in Tasks, b \in Tasks :
        (/\ a # b
         /\ task_pc[a] \in {"decode", "persist"}
         /\ task_pc[b] = "receive"
         /\ loop_taken[b] < loop_arrived[b]) => ENABLED TaskResume(b)

\* C26: the broadcaster's lock is never held while a send is in progress: it
\* is free in every state between the steps of the calls.  So at any moment
\* of a broadcast's send phase a register call and an unregister call can
\* complete at once, and every broadcast call that has not returned can take
\* its next step, whether its send succeeds or fails: no interleaving of
\* the three calls leaves a call waiting forever.
C26_LockNeverHeldAcrossSend ==
    /\ bc_lock = None
    /\ \A websocket \in Subscribers \ registered : ENABLED Register(websocket)
    /\ \A websocket \in connections : ENABLED Unregister(websocket)
    /\ \A b \in Broadcasts :
           bc_state[b] = "sending" =>
               /\ ENABLED BroadcastSend(b, TRUE)
               /\ ENABLED BroadcastSend(b, FALSE)

\* The first broadcast call is in its send phase and has sent to one
\* subscriber; meanwhile one subscriber of its snapshot has unregistered and
\* one that is not in the snapshot has registered.
C26_Witness ==
    /\ bc_state[1] = "sending"
    /\ Len(attempts[1]) = 1
    /\ failed_since = {}
    /\ \E websocket \in connections : websocket \notin SnapshotOf(1)
    /\ \E websocket \in SnapshotOf(1) : websocket \notin connections

\* The effects of a confirmed transition on the candidate that was open.
ConfirmEffects ==
    /\ state = "searching"
    /\ cands[prev.current_candidate].end_ms = last_timestamp_ms
    /\ pending_emit # <<>>
    /\ pending_emit[Len(pending_emit)] = prev.current_candidate
    /\ current_candidate = None
    /\ stable_since_ms = None
    /\ transition_frames = 0
    /\ locked_reference = NoImage

\* C27: in state locked with an open candidate, whatever last_lock_ms is,
\* the frame that completes transition_confirm_frames consecutive flagged
\* frames, each at least min_slide_duration_ms after last_lock_ms, closes the
\* candidate at its own timestamp, queues it, clears the open candidate, the
\* stability-start, the counter and the locked reference and leaves the
\* detector searching; and the counter only moves on flagged frames.
C27_ConfirmAfterEligibleRun ==
    /\ (/\ last_call = "process_frame"
        /\ prev.state = "locked"
        /\ prev.current_candidate # None
        /\ eligible_run >= params.transition_confirm_frames) => ConfirmEffects
    /\ ConfirmStep => LastFlagged /\ ConfirmEffects
    /\ (last_call = "process_frame" /\ prev.state = "locked"
           /\ transition_frames > 0) => LastFlagged

\* C28: in state locked, a flagged frame whose timestamp is less than
\* min_slide_duration_ms after last_lock_ms leaves the transition counter at
\* 0, whatever the counter was, and confirms nothing: the candidate stays
\* open and the state locked.
C28_EarlyFlaggedFrameResets ==
    (/\ last_call = "process_frame"
     /\ prev.state = "locked"
     /\ LastFlagged
     /\ last_timestamp_ms - last_lock_ms < params.min_slide_duration_ms) =>
        /\ transition_frames = 0
        /\ state = "locked"
        /\ current_candidate = prev.current_candidate
        /\ current_candidate # None => cands[current_candidate].end_ms = None

\* The counter was above 0 and a flagged frame with an earlier timestamp,
\* less than min_slide_duration_ms after the lock, put it back to 0.
C28_Witness ==
    /\ last_call = "process_frame"
    /\ prev.state = "locked"
    /\ prev.transition_frames > 0
    /\ LastFlagged
    /\ last_lock_ms > 0
    /\ last_timestamp_ms - last_lock_ms < params.min_slide_duration_ms
    /\ transition_frames = 0

\* C29: a lock ends an unbroken run of frames with similarity >= tau_stable.
\* A frame processed while searching whose similarity is below tau_stable
\* clears the stability-start and does not lock; the stability-start is
\* always the first frame of the current unbroken run; and the candidate a
\* lock creates starts at the first frame of the run the locking frame ends.
C29_LockEndsUnbrokenStableRun ==
    /\ (/\ last_call = "process_frame"
        /\ prev.state = "searching"
        /\ last_ssim # None
        /\ last_ssim < params.tau_stable) =>
           /\ stable_since_ms = None
           /\ state = "searching"
    /\ stable_since_ms = run_start_ms
    /\ LockStep =>
           /\ last_ssim >= params.tau_stable
           /\ run_start_ms # None
           /\ cands[current_candidate].start_ms = run_start_ms

\* A run that had started was broken by a frame below tau_stable.
C29_Witness ==
    /\ last_call = "process_frame"
    /\ prev.state = "searching"
    /\ prev.stable_since_ms # None
    /\ last_ssim < params.tau_stable
    /\ last_ssim # None
    /\ stable_since_ms = None

\* C30: a process_chunk call for which add_chunk returns nothing (no init
\* segment yet) or whose decode yields no frame leaves the cursor and the
\* detector state as they were, passes no frame to the detector and
\* delivers no event.
C30_NothingDecodedNothingChanges ==
    [][\A chunk_bytes \in Chunks :
          (/\ ProcessChunk(chunk_bytes)
           /\ (~Truthy(add_result') \/ NFrames(add_result') = 0)) =>
              /\ last_frame_count' = last_frame_count
              /\ fed' = fed
              /\ UNCHANGED <<detvars, cands, completed, emitvars, released>>]_vars

\* A stream was restarted by an init segment without frames after frames of
\* the earlier stream had gone to the detector: the reconstruction has no
\* frame and the cursor has kept its value.
C30_Witness ==
    /\ Truthy(add_result)
    /\ NFrames(add_result) = 0
    /\ last_chunk = Marker
    /\ fed # <<>>
    /\ last_frame_count > 0
    /\ last_frame_count = prev_cursor

\* The call process_chunk(chunk_bytes) appends a media fragment to a full
\* window, so the oldest buffered fragment is dropped.
DropsOldest(chunk_bytes) ==
    /\ ~IsInitSegment(chunk_bytes)
    /\ AcceptsMedia
    /\ Len(media_chunks) >= max_chunks

\* C31: once the window is full and drops its oldest fragment, every newly
\* arrived media fragment that holds at least one frame still makes
\* process_chunk pass at least one new frame to the detector.
C31_FramesKeepArrivingAfterDrop ==
    [][\A chunk_bytes \in Chunks :
           (ProcessChunk(chunk_bytes) /\ DropsOldest(chunk_bytes)
                /\ NFrames(chunk_bytes) >= 1)
               => Len(fed') > Len(fed)]_vars

\* The frames of the stream the accumulator holds: those of its init segment,
\* then those of the buffered media fragments.
StreamFrames ==
    IF init_arrival = None THEN <<>>
    ELSE FrameIds(init_arrival, init_segment)
             \o FramesOf(media_arrivals, media_chunks)

\* C32: after an init segment has replaced an earlier one, every frame of the
\* restarted stream has been passed to the detector, from its first frame on
\* (as long as the window has dropped no fragment of the restarted stream):
\* the cursor value of the previous stream makes process_chunk skip none.
C32_RestartedStreamFromFirstFrame ==
    (restarted /\ Len(since_init) <= max_chunks) =>
        \A f \in Range(StreamFrames) : f \in Range(fed)

\* C33: in every state reached by process_frame and flush calls the detector
\* is in state "locked" exactly when it holds an open candidate and a locked
\* reference image; so after a flush that closed the open candidate it is
\* searching again and a later stable streak can lock.
C33_LockedIffOpenCandidate ==
    state = "locked" <=>
        (current_candidate # None /\ locked_reference # NoImage)

\* C34: with timestamps that do not decrease, a candidate closed by a
\* confirmed transition has end_ms - start_ms >= min_slide_duration_ms, and
\* every candidate the detector has released has start_ms <= end_ms.
C34_ClosedCandidateDurations ==
    /\ ConfirmStep =>
           /\ prev.current_candidate # None
           /\ cands[prev.current_candidate].end_ms
                  - cands[prev.current_candidate].start_ms
                  >= params.min_slide_duration_ms
    /\ \A k \in DOMAIN released :
           /\ cands[released[k]].end_ms # None
           /\ cands[released[k]].start_ms <= cands[released[k]].end_ms

\* A second candidate is confirmed after exactly the minimum duration, the
\* first having been released when the second was locked.
C34_Witness ==
    /\ ConfirmStep
    /\ prev.current_candidate = 2
    /\ cands[2].end_ms - cands[2].start_ms = params.min_slide_duration_ms
    /\ released = <<1>>
    /\ cands[1].end_ms - cands[1].start_ms >= params.min_slide_duration_ms

\* C35: with timestamps that do not decrease, the candidates a detector has
\* released, through process_frame and flush, are in increasing start_ms
\* order and their intervals do not overlap: the end_ms of each is <= the
\* start_ms of the next.
C35_ReleasedInOrderNoOverlap ==
    \A k \in 1..(Len(released) - 1) :
        /\ cands[released[k]].start_ms < cands[released[k + 1]].start_ms
        /\ cands[released[k]].end_ms # None
        /\ cands[released[k]].end_ms <= cands[released[k + 1]].start_ms

\* Two candidates released, the second by flush, starting at the very
\* timestamp at which the first ended.
C35_Witness ==
    /\ Len(released) = 2
    /\ flushed
    /\ returned = <<released[2]>>
    /\ cands[released[1]].end_ms = cands[released[2]].start_ms
    /\ cands[released[2]].end_ms > cands[released[2]].start_ms

\* C36: when the fragments carry capture times that do not decrease and the
\* frame rate is constant, the timestamps process_chunk passes to
\* process_frame do not decrease over the connection: the first frame a call
\* passes is stamped no earlier than the last frame passed before, also when
\* the window drops fragments or the stream restarts.
C36_FrameTimestampsNonDecreasing ==
    [][\A chunk_bytes \in Chunks, captured_ms \in CaptureTimes :
           (ProcessChunkAt(chunk_bytes, captured_ms)
                /\ last_fed_ms # None /\ Len(fed') > Len(fed))
               => FrameTimestamp(captured_ms, last_frame_count) >= last_fed_ms]_vars

\* C37: when process_chunk raises partway through the new frames of a
\* reconstruction and the handler goes on with the next fragment, no frame
\* that process_frame had already been given before the exception is passed
\* to the detector again by a later process_chunk.
C37_NoFrameAgainAfterRaise ==
    [][\A f \in passed_before_raise :
           \A k \in (Len(fed) + 1)..Len(fed') : fed'[k] # f]_vars

\* C38 as stated: a broadcast never attempts a send to a connection whose
\* unregister call completed before that send attempt starts.
C38_NoSendAfterUnregister ==
    [][\A b \in Broadcasts, ok \in BOOLEAN :
           BroadcastSend(b, ok) => bc_connections[b][bc_pos[b]] \in connections]_vars

\* C38, amended: a broadcast attempts sends only to the connections of its
\* snapshot, which it never changes, and the snapshot holds no connection
\* whose unregister call completed before the snapshot was taken.
C38_NoSendToUnregisteredAtSnapshot ==
    /\ [](\A b \in Broadcasts : Range(attempts[b]) \subseteq SnapshotOf(b))
    /\ [][\A b \in Broadcasts :
              /\ BroadcastStart(b) =>
                     SnapshotOf(b)' \cap (registered \ connections) = {}
              /\ bc_state[b] # "idle" =>
                     bc_connections'[b] = bc_connections[b]]_vars

\* One subscriber unregistered before the snapshot and is not in it; another
\* unregistered after the snapshot, before the broadcast comes to it.
C38_Witness ==
    /\ registered = Subscribers
    /\ bc_state[1] = "sending"
    /\ bc_connections[1] = <<"s3", "s2">>
    /\ attempts[1] = <<"s3">>
    /\ connections = {"s3"}
    /\ failed_since = {}

==============================================================================
